---- MODULE Spec2Model ----
(***************************************************************************)
(* The detection post-processing of detect.py (one image) and              *)
(* webcam_inference.py (a loop over frames): confidence filter, score      *)
(* sort with pre-NMS truncation, NMS, post-NMS truncation, assembly.       *)
(*                                                                         *)
(* Numbers.  Scores and the confidence threshold are in hundredths         *)
(* (40 is 0.40).  The IoU threshold is a rational [n, d] with d > 0, and   *)
(* IoU comparisons are cross-multiplied, so they are exact.  A box is      *)
(* <<x1, y1, x2, y2>> in pixels.  A landmark row is represented by the     *)
(* index of the network output row it was decoded from: the ten            *)
(* coordinates never influence control flow, only where they end up.       *)
(* Rows are numbered from 1 (numpy numbers them from 0).                   *)
(***************************************************************************)
EXTENDS Integers, Sequences, FiniteSets

VARIABLES
    prog,        \* which main runs: "detect" or "webcam"
    params,      \* the parsed arguments
    pc,          \* position in main
    err,         \* the exception that left main, "none" if none
    priors,      \* the anchors PriorBox generated
    loc,         \* network output: per row, the location regression
    conf,        \* network output: per row, the foreground score
    landmarks,   \* network output, then the decoded/filtered/sorted rows
    boxes,
    scores,
    detections,
    keep

vars == <<prog, params, pc, err, priors, loc, conf, landmarks, boxes, scores,
          detections, keep>>

(***************************************************************************)
(* Bounds and input sets                                                   *)
(***************************************************************************)
MaxAnchors == 3

Rat(n, d) == [n |-> n, d |-> d]

Scores == {40, 90}

DetectConfThreshold == 2
WebcamConfThreshold == 40
PreNmsTopk == 5000
PostNmsTopk == 750
NmsThreshold == Rat(2, 5)

ConfThresholds == {DetectConfThreshold, WebcamConfThreshold}
NmsThresholds == {NmsThreshold, Rat(49, 151), Rat(-1, 5)}
PreTopks == {-1, 0, 1, 2, PreNmsTopk}
PostTopks == {-1, 0, 1, PostNmsTopk}

InRange(p) ==
    p.nms_threshold.n >= 0 /\ p.pre_nms_topk > 0 /\ p.post_nms_topk > 0

OutOfRange(p) == ~InRange(p)

OffDefault(p) ==
    (IF p.pre_nms_topk = PreNmsTopk THEN 0 ELSE 1)
        + (IF p.nms_threshold = NmsThreshold THEN 0 ELSE 1)
        + (IF p.post_nms_topk = PostNmsTopk THEN 0 ELSE 1)

\* argparse accepts any float and any int.  The arguments drawn: every
\* combination of the in-range values, and each out-of-range value with the
\* other two detection settings at their defaults.
parse_arguments ==
    {p \in [conf_threshold : ConfThresholds, pre_nms_topk : PreTopks,
            nms_threshold : NmsThresholds, post_nms_topk : PostTopks] :
        InRange(p) \/ OffDefault(p) <= 1}

(***************************************************************************)
(* numpy and Python operations used by main                                *)
(***************************************************************************)
Min(a, b) == IF a <= b THEN a ELSE b
Max(a, b) == IF a >= b THEN a ELSE b

\* s[:k]
SliceTo(s, k) ==
    LET n == Len(s)
        m == IF k >= 0 THEN Min(k, n) ELSE Max(n + k, 0)
    IN  SubSeq(s, 1, m)

\* s[idx] for an integer index array
Take(s, idx) == [k \in 1..Len(idx) |-> s[idx[k]]]

Indices(n) == [i \in 1..n |-> i]

\* s[mask] for a boolean mask of the same length
BoolIndex(s, mask) ==
    Take(s, SelectSeq(Indices(Len(s)), LAMBDA i : mask[i]))

\* The orders of the rows in `rest` that put their scores in non-increasing
\* order: any row of the highest score first, then an order of the others.
RECURSIVE Descending(_, _)
Descending(s, rest) ==
    IF rest = {} THEN {<<>>}
    ELSE LET top == {i \in rest : \A j \in rest : s[i] >= s[j]}
         IN  UNION {{<<i>> \o o : o \in Descending(s, rest \ {i})} :
                    i \in top}

\* Mutant of ArgsortReversed: the [::-1] is missing, the order is ascending
ArgsortAscending(s) ==
    Descending([i \in 1..Len(s) |-> 0 - s[i]], 1..Len(s))

\* scores.argsort()[::-1]: argsort's default sort is not stable, so the
\* result is some permutation that puts the scores in non-increasing order.
ArgsortReversed(s) == Descending(s, 1..Len(s))

(***************************************************************************)
(* utils.box_utils: decode, decode_landmarks, nms                          *)
(***************************************************************************)
Area(b) == (b[3] - b[1]) * (b[4] - b[2])

Inter(a, b) ==
    Max(0, Min(a[3], b[3]) - Max(a[1], b[1]))
        * Max(0, Min(a[4], b[4]) - Max(a[2], b[2]))

Union(a, b) == Area(a) + Area(b) - Inter(a, b)

\* IoU(a, b) <= t; a degenerate pair has IoU 0
IoULeq(a, b, t) ==
    IF Union(a, b) = 0 THEN 0 <= t.n
    ELSE Inter(a, b) * t.d <= t.n * Union(a, b)

RECURSIVE NmsLoop(_, _, _, _)
NmsLoop(dets, remaining, kept, t) ==
    IF remaining = <<>> THEN kept
    ELSE LET i == Head(remaining)
         IN  NmsLoop(dets,
                     SelectSeq(Tail(remaining),
                               LAMBDA j : IoULeq(dets[i].box, dets[j].box, t)),
                     Append(kept, i), t)

nms(dets, t) == NmsLoop(dets, Indices(Len(dets)), <<>>, t)

\* decode(loc, priors, variance) followed by the scaling to pixels, for one
\* row: the centre shifts by d * variance[0] * anchor size, variance[0] = 1/10.
\* The size factor exp(d * variance[1]) is 1: the rows of Locs have dw = dh = 0.
decode(l, p) ==
    LET cx == p[1] + (l[1] * p[3]) \div 10
        cy == p[2] + (l[2] * p[4]) \div 10
        w  == p[3]
        h  == p[4]
    IN  <<cx - w \div 2, cy - h \div 2, cx + w \div 2, cy + h \div 2>>

\* decode_landmarks for one row: the row keeps its identity
decode_landmarks(l, p) == l

(***************************************************************************)
(* Inputs of one image                                                     *)
(***************************************************************************)
\* The anchor PriorBox generates, in pixels, centre form (cx, cy, w, h)
Anchor == <<5, 5, 10, 10>>

\* Location regressions (dx, dy, dw, dh); they decode to the boxes
\* A=(0,0,10,10), B=(1,1,11,11), C=(3,3,13,13) with
\* IoU(A,B) = 81/119, IoU(B,C) = 64/136, IoU(A,C) = 49/151.
Locs == {<<0, 0, 0, 0>>, <<1, 1, 0, 0>>, <<3, 3, 0, 0>>}

\* Which output, if any, has one row fewer than there are anchors
Shapes == {"ok", "loc", "conf", "landmarks"}

Rows(n, shape, which) == IF shape = which /\ n > 0 THEN n - 1 ELSE n

(***************************************************************************)
(* main                                                                    *)
(***************************************************************************)
Init ==
    /\ prog \in {"detect", "webcam"}
    /\ params \in parse_arguments
    /\ pc = IF prog = "detect" THEN "forward" ELSE "open"
    /\ err = "none"
    /\ priors = <<>>
    /\ loc = <<>>
    /\ conf = <<>>
    /\ landmarks = <<>>
    /\ boxes = <<>>
    /\ scores = <<>>
    /\ detections = <<>>
    /\ keep = <<>>

\* The per-image variables hold nothing: before the first assignment, at the
\* start of the next loop iteration (which assigns each anew before reading
\* it), and once main has returned or an exception has left it.
NoLocals ==
    /\ priors' = <<>>
    /\ loc' = <<>>
    /\ conf' = <<>>
    /\ landmarks' = <<>>
    /\ boxes' = <<>>
    /\ scores' = <<>>
    /\ detections' = <<>>
    /\ keep' = <<>>

\* An exception nothing in main catches
Raise(e) ==
    /\ pc' = "raised"
    /\ err' = e
    /\ NoLocals

\* webcam: cap = cv2.VideoCapture(0); if not cap.isOpened(): return
OpenWebcam ==
    /\ prog = "webcam"
    /\ pc = "open"
    /\ \E opened \in BOOLEAN : pc' = IF opened THEN "read" ELSE "returned"
    /\ UNCHANGED <<prog, params, err, priors, loc, conf, landmarks, boxes,
                   scores, detections, keep>>

\* webcam: ret, frame = cap.read(); if not ret: break
ReadFrame ==
    /\ prog = "webcam"
    /\ pc = "read"
    /\ \E ret \in BOOLEAN : pc' = IF ret THEN "forward" ELSE "released"
    /\ UNCHANGED <<prog, params, err, priors, loc, conf, landmarks, boxes,
                   scores, detections, keep>>

\* What one image gives: the anchors and the three network outputs
Images ==
    UNION {[priors : {[i \in 1..n |-> Anchor]},
            loc : [1..Rows(n, shape, "loc") -> Locs],
            conf : [1..Rows(n, shape, "conf") -> Scores],
            landmarks : {Indices(Rows(n, shape, "landmarks"))}] :
           n \in 0..MaxAnchors, shape \in Shapes}

\* Row i of every output decode reads is paired with anchor i
ShapesAgree(img) ==
    Len(img.loc) = Len(img.priors) /\ Len(img.landmarks) = Len(img.priors)

\* forward pass, generate anchor boxes, decode boxes and landmarks, scale
\* adjustments.  decode and decode_landmarks pair loc and landmarks with the
\* anchors row by row and fail when the row counts differ; conf is not read
\* here.
Forward ==
    /\ pc = "forward"
    /\ \E img \in Images :
         IF ShapesAgree(img)
         THEN /\ priors' = img.priors
              /\ loc' = img.loc
              /\ conf' = img.conf
              /\ boxes' =
                   [i \in 1..Len(img.priors) |->
                       decode(img.loc[i], img.priors[i])]
              /\ landmarks' =
                   [i \in 1..Len(img.priors) |->
                       decode_landmarks(img.landmarks[i], img.priors[i])]
              /\ pc' = "filter"
              /\ UNCHANGED <<err, scores, detections, keep>>
         ELSE Raise("ShapeMismatch")
    /\ UNCHANGED <<prog, params>>

\* Mutant of ConfidenceMask: >= in place of >
ConfidenceMaskInclusive(s, threshold) ==
    [i \in 1..Len(s) |-> s[i] >= threshold]

\* inds = scores > params.conf_threshold
ConfidenceMask(s, threshold) == [i \in 1..Len(s) |-> s[i] > threshold]

\* boxes = boxes[inds]
FilteredBoxes(b, inds) == BoolIndex(b, inds)

\* Mutant of FilteredLandmarks: the landmarks are left unfiltered
UnfilteredLandmarks(l, inds) == l

\* landmarks = landmarks[inds]
FilteredLandmarks(l, inds) == BoolIndex(l, inds)

\* scores = scores[inds]
FilteredScores(s, inds) == BoolIndex(s, inds)

\* scores = conf[:, 1]; filter by confidence threshold.  A boolean mask whose
\* length differs from the indexed array's raises IndexError.
Filter ==
    /\ pc = "filter"
    /\ LET s == conf
           inds == ConfidenceMask(s, params.conf_threshold)
       IN  IF Len(inds) = Len(boxes)
           THEN /\ boxes' = FilteredBoxes(boxes, inds)
                /\ landmarks' = FilteredLandmarks(landmarks, inds)
                /\ scores' = FilteredScores(s, inds)
                /\ pc' = "sort"
                /\ UNCHANGED <<err, priors, loc, conf, detections, keep>>
           ELSE Raise("IndexError")
    /\ UNCHANGED <<prog, params>>

\* order = scores.argsort()[::-1][:params.pre_nms_topk]
Orders(s, topk) == {SliceTo(o, topk) : o \in ArgsortReversed(s)}

\* sort by scores
Sort ==
    /\ pc = "sort"
    /\ \E order \in Orders(scores, params.pre_nms_topk) :
         /\ boxes' = Take(boxes, order)
         /\ landmarks' = Take(landmarks, order)
         /\ scores' = Take(scores, order)
    /\ pc' = "nms"
    /\ UNCHANGED <<prog, params, err, priors, loc, conf, detections, keep>>

\* np.hstack((boxes, scores[:, np.newaxis]))
Hstack(b, s) == [k \in 1..Len(b) |-> [box |-> b[k], score |-> s[k]]]

\* Mutant of NmsKeep: the confidence threshold is passed as IoU threshold
NmsKeepConfThreshold(dets, p) == nms(dets, Rat(p.conf_threshold, 100))

\* keep = nms(detections, params.nms_threshold)
NmsKeep(dets, p) == nms(dets, p.nms_threshold)

\* Mutant of KeptDetections: keep is not applied
AllDetections(dets, kp) == dets

\* detections = detections[keep]
KeptDetections(dets, kp) == Take(dets, kp)

\* landmarks = landmarks[keep]
KeptLandmarks(l, kp) == Take(l, kp)

\* apply NMS
Nms ==
    /\ pc = "nms"
    /\ LET dets == Hstack(boxes, scores)
           kp == NmsKeep(dets, params)
       IN  /\ keep' = kp
           /\ detections' = KeptDetections(dets, kp)
           /\ landmarks' = KeptLandmarks(landmarks, kp)
    /\ pc' = "topk"
    /\ UNCHANGED <<prog, params, err, priors, loc, conf, boxes, scores>>

\* np.concatenate((detections, landmarks), axis=1)
Concatenate(dets, l) ==
    [k \in 1..Len(dets) |->
        [box |-> dets[k].box, score |-> dets[k].score, landmark |-> l[k]]]

\* keep top-k detections and landmarks, concatenate detections and
\* landmarks; arrays of different row counts raise ValueError
TopK ==
    /\ pc = "topk"
    /\ LET dets == SliceTo(detections, params.post_nms_topk)
           l == SliceTo(landmarks, params.post_nms_topk)
       IN  IF Len(dets) = Len(l)
           THEN /\ detections' = Concatenate(dets, l)
                /\ landmarks' = l
                /\ pc' = "output"
                /\ UNCHANGED <<err, priors, loc, conf, boxes, scores, keep>>
           ELSE Raise("ValueError")
    /\ UNCHANGED <<prog, params>>

\* detect: draw and save the image, then main returns
SaveImage ==
    /\ prog = "detect"
    /\ pc = "output"
    /\ pc' = "returned"
    /\ NoLocals
    /\ UNCHANGED <<prog, params, err>>

\* webcam: draw the detections, show the frame, poll the keyboard; 'q'
\* leaves the loop, anything else starts the next iteration
ShowFrame ==
    /\ prog = "webcam"
    /\ pc = "output"
    /\ \E quit \in BOOLEAN : pc' = IF quit THEN "released" ELSE "read"
    /\ NoLocals
    /\ UNCHANGED <<prog, params, err>>

Next ==
    \/ OpenWebcam
    \/ ReadFrame
    \/ Forward
    \/ Filter
    \/ Sort
    \/ Nms
    \/ TopK
    \/ SaveImage
    \/ ShowFrame

Spec == Init /\ [][Next]_vars

(***************************************************************************)
(* Properties                                                              *)
(***************************************************************************)
\* main holds the final detection list of the image
Output == pc = "output"

\* main holds the result of the suppression step (keep, detections[keep])
Suppressed == pc \in {"topk", "output"}

Range(s) == {s[k] : k \in 1..Len(s)}

\* C1: after nms and detections[keep], every two distinct kept rows have
\* IoU <= nms_threshold, up to and including the final output.
C1_KeptBoxesDoNotOverlap ==
    Suppressed =>
        \A p, q \in 1..Len(detections) :
            p # q => IoULeq(detections[p].box, detections[q].box,
                            params.nms_threshold)

\* C1 witness: a final output of two or more rows from which nms removed a
\* candidate.
C1_Witness ==
    /\ Output
    /\ InRange(params)
    /\ Len(detections) >= 2
    /\ Len(keep) < Len(boxes)

\* C2: a candidate of the sorted, truncated list is absent from keep exactly
\* when a kept candidate before it overlaps it beyond the threshold; the
\* first candidate is always kept.
C2_GreedySuppression ==
    Suppressed =>
        /\ \A j \in 1..Len(boxes) :
              j \notin Range(keep) <=>
                  \E i \in Range(keep) :
                      i < j /\ ~IoULeq(boxes[i], boxes[j], params.nms_threshold)
        /\ Len(boxes) > 0 => 1 \in Range(keep)

\* C2 witness: a candidate was removed, and a later candidate that overlaps
\* the removed one beyond the threshold was kept.
C2_Witness ==
    /\ pc = "topk"
    /\ InRange(params)
    /\ \E i, j \in 1..Len(boxes) :
          /\ i < j
          /\ i \notin Range(keep)
          /\ j \in Range(keep)
          /\ ~IoULeq(boxes[i], boxes[j], params.nms_threshold)

\* C3: the final detection list is non-increasing in score.
C3_OutputScoresDescending ==
    Output =>
        \A k \in 1..(Len(detections) - 1) :
            detections[k].score >= detections[k + 1].score

\* C3 witness: a final output with a strictly higher score before a lower
\* one, from network rows in which a lower score came before a higher one.
C3_Witness ==
    /\ Output
    /\ InRange(params)
    /\ \E k \in 1..(Len(detections) - 1) :
          detections[k].score > detections[k + 1].score
    /\ \E i, j \in 1..Len(conf) : i < j /\ conf[i] < conf[j]

\* C4: the candidates after the pre-NMS ranking number at most
\* pre_nms_topk, and the output detections at most post_nms_topk.
C4_TopkBounds ==
    /\ pc = "nms" => Len(boxes) <= params.pre_nms_topk
    /\ Output => Len(detections) <= params.post_nms_topk

\* C5: the rows that pass the confidence filter are exactly those with
\* score > conf_threshold (a score equal to it is dropped), and every
\* output detection has score > conf_threshold.
C5_StrictConfidenceFilter ==
    /\ pc = "sort" =>
          /\ Range(landmarks) =
                {i \in 1..Len(conf) : conf[i] > params.conf_threshold}
          /\ Len(landmarks) = Cardinality(Range(landmarks))
    /\ Output =>
          \A k \in 1..Len(detections) :
              detections[k].score > params.conf_threshold

\* C5 witness: the filter has run on rows of which one scores exactly the
\* threshold and another above it.
C5_Witness ==
    /\ pc = "sort"
    /\ \E i, j \in 1..Len(conf) :
          conf[i] = params.conf_threshold /\ conf[j] > params.conf_threshold

\* The network outputs disagree with the anchor count
ShapeMismatch(img) ==
    \/ Len(img.loc) # Len(img.priors)
    \/ Len(img.conf) # Len(img.priors)
    \/ Len(img.landmarks) # Len(img.priors)

\* C6: when the anchor count disagrees with the row count of loc, conf or
\* landmarks, the pipeline fails with ShapeMismatch and decodes nothing.
C6_ShapeMismatchFails ==
    [][\A img \in Images :
          (/\ pc = "forward"
           /\ ShapeMismatch(img)
           /\ priors' = img.priors /\ loc' = img.loc /\ conf' = img.conf)
          => (pc' = "raised" /\ err' = "ShapeMismatch" /\ boxes' = <<>>)]_vars

\* C7: no detection list is produced from an invocation with an
\* out-of-range parameter.
C7_OutOfRangeRejected ==
    OutOfRange(params) => ~Output

\* C8: in the webcam loop a frame's failure leaves the loop running: the
\* step that fails hands control back to reading the next frame.
C8_FailureLeavesLoopRunning ==
    [][(prog = "webcam" /\ err = "none" /\ err' # "none") => pc' = "read"]_vars

\* C9: among the candidates that pass the confidence filter, equal scores
\* are ordered by anchor index ascending: a candidate in the sorted,
\* truncated list is preceded in it by every passing candidate of the same
\* score and a smaller anchor index.
C9_TiesByAnchorIndex ==
    pc = "nms" =>
        \A l \in 1..Len(landmarks) :
            \A i \in 1..Len(conf) :
                (/\ conf[i] > params.conf_threshold
                 /\ conf[i] = scores[l]
                 /\ i < landmarks[l])
                => \E k \in 1..(l - 1) : landmarks[k] = i

Injective(s) == \A i, j \in 1..Len(s) : i # j => s[i] # s[j]

\* Row k of b, s and l holds the box, the score and the landmark of one anchor
Aligned(b, s, l) ==
    /\ Len(b) = Len(l)
    /\ Len(s) = Len(l)
    /\ Injective(l)
    /\ \A k \in 1..Len(l) :
          /\ l[k] \in 1..Len(priors)
          /\ b[k] = decode(loc[l[k]], priors[l[k]])
          /\ s[k] = conf[l[k]]

\* C10: at every stage (filter, sort and pre-NMS cut, NMS keep, post-NMS
\* cut, assembly) each row holds the box, score and landmark of one and the
\* same anchor, and no anchor is in two rows.
C10_RowsAligned ==
    /\ pc \in {"sort", "nms"} => Aligned(boxes, scores, landmarks)
    /\ pc = "topk" =>
          Aligned([k \in 1..Len(detections) |-> detections[k].box],
                  [k \in 1..Len(detections) |-> detections[k].score],
                  landmarks)
    /\ Output =>
          Aligned([k \in 1..Len(detections) |-> detections[k].box],
                  [k \in 1..Len(detections) |-> detections[k].score],
                  [k \in 1..Len(detections) |-> detections[k].landmark])

\* C10 witness: a final output of two or more rows whose first row is not
\* anchor 1, with anchors dropped on the way.
C10_Witness ==
    /\ Output
    /\ InRange(params)
    /\ Len(detections) >= 2
    /\ detections[1].landmark # 1
    /\ Len(detections) < Len(priors)

====
